---- MODULE Spec2Model ----
(***************************************************************************)
(* Binned SAH BVH builder (include/bvh/binned_sah_builder.hpp).            *)
(*                                                                         *)
(* Scalars are modelled by integers (exact arithmetic) extended with the   *)
(* IEEE values +inf, -inf and NaN.  Vectors are triples <<x, y, z>>; the   *)
(* code's axis a in 0..2 reads component a + 1.  Arrays are functions on   *)
(* 0..n-1, as in the code.                                                 *)
(***************************************************************************)
EXTENDS Integers, Sequences, FiniteSets, TLC

\* ------------------------------------------------------------------ bounds
MaxN == 3                 \* largest primitive_count explored
MaxDepthCfg == 2          \* largest configured bvh.max_depth explored
MaxTraversalCost == 2     \* largest configured bvh.traversal_cost explored
MaxWorkers == 2           \* worker threads draining the pending work items
MaxOverrun == 4           \* memory modelled past the end of the node array
MaxCost == 3              \* largest ordinary split cost given to the axis selection

\* --------------------------------------------------------------- constants
BinCount == 4             \* template parameter BinCount
ScalarMax == 1000000      \* std::numeric_limits<Scalar>::max()

Inf == ScalarMax + 1
NegInf == 0 - Inf
NaN == ScalarMax + 2

Axes == 0..2

VARIABLES
    bboxes,             \* const BoundingBox<Scalar>* bboxes   (input, read-only)
    centers,            \* const Vector3<Scalar>* centers      (input, read-only)
    primitive_count,    \* argument of BinnedSahBuilder::build
    max_depth,          \* bvh.max_depth
    traversal_cost,     \* bvh.traversal_cost
    emptyAreaInf,       \* whether half_area() of an empty box overflows to +inf
    phase,              \* "constructed" | "building"
    primitive_indices,  \* bvh.primitive_indices
    nodes,              \* bvh.nodes
    node_count,         \* bvh.node_count
    pending,            \* work items held by the scheduler
    running,            \* the build() calls in progress: position and locals
    nodeWrites,         \* history: per node slot, the writes it received
    allocs,             \* history: slot pairs handed out by the atomic capture
    created,            \* history: every work item ever created
    returns,            \* history: what each finished build() call returned
    lastBuild,          \* history: decision taken by the latest build() call,
                        \*          and the primitive-index array it found
    order,              \* single-threaded runs: the work items taken so far
    firstRun,           \* single-threaded runs: what the first run did and left
    selection           \* axis selection alone: three costs and the axis picked

vars == <<bboxes, centers, primitive_count, max_depth, traversal_cost,
          emptyAreaInf, phase, primitive_indices, nodes, node_count, pending,
          running, nodeWrites, allocs, created, returns, lastBuild, order,
          firstRun, selection>>

\* the variables a build leaves alone: those of the single-threaded double
\* run and of the axis selection taken alone
aside == <<order, firstRun, selection>>

inputs == <<bboxes, centers, primitive_count, max_depth, traversal_cost,
            emptyAreaInf>>

\* ----------------------------------------------------------------- helpers
Min2(a, b) == IF a <= b THEN a ELSE b
Max2(a, b) == IF a >= b THEN a ELSE b
SetMin(S) == CHOOSE x \in S : \A y \in S : x <= y
SetMax(S) == CHOOSE x \in S : \A y \in S : x >= y

\* F(v), with v evaluated once (a local variable holding v)
Bind(v, F(_)) == CHOOSE r \in {F(x) : x \in {v}} : TRUE

\* IEEE comparisons: every comparison with NaN is false
ScalarLess(a, b) == a # NaN /\ b # NaN /\ a < b
ScalarGreater(a, b) == a # NaN /\ b # NaN /\ a > b
ScalarGreaterEq(a, b) == a # NaN /\ b # NaN /\ a >= b

\* IEEE product of a scalar and a (finite) factor
ScalarMul(a, k) ==
    IF a = NaN THEN NaN
    ELSE IF a = Inf \/ a = NegInf
         THEN IF k = 0 THEN NaN
              ELSE IF (a = Inf) = (k > 0) THEN Inf ELSE NegInf
         ELSE a * k

\* IEEE sum
ScalarAdd(a, b) ==
    IF a = NaN \/ b = NaN THEN NaN
    ELSE IF a = Inf THEN (IF b = NegInf THEN NaN ELSE Inf)
    ELSE IF a = NegInf THEN (IF b = Inf THEN NaN ELSE NegInf)
    ELSE IF b = Inf \/ b = NegInf THEN b
    ELSE a + b

\* ---------------------------------------------------------- bounding boxes
Vec(x, y, z) == <<x, y, z>>

\* BoundingBox<Scalar>::empty()
EmptyBox == [min |-> Vec(ScalarMax, ScalarMax, ScalarMax),
             max |-> Vec(0 - ScalarMax, 0 - ScalarMax, 0 - ScalarMax)]

IsEmptyBox(b) == \E a \in 1..3 : b.min[a] > b.max[a]

\* BoundingBox::extend(const BoundingBox&)
Extend(b, o) ==
    [min |-> <<Min2(b.min[1], o.min[1]), Min2(b.min[2], o.min[2]), Min2(b.min[3], o.min[3])>>,
     max |-> <<Max2(b.max[1], o.max[1]), Max2(b.max[2], o.max[2]), Max2(b.max[3], o.max[3])>>]

\* BoundingBox::extend(const Vector3&)
ExtendPoint(b, p) == Extend(b, [min |-> p, max |-> p])

\* BoundingBox::half_area(): (d0 + d1) * d2 + d0 * d1 on the diagonal; on an
\* empty box the diagonal is -2 * max(), which either overflows (+inf area)
\* or stays finite (the value is then only ever multiplied by a count of 0)
HalfArea(b) ==
    IF IsEmptyBox(b)
    THEN IF emptyAreaInf THEN Inf ELSE 0
    ELSE LET d == <<b.max[1] - b.min[1], b.max[2] - b.min[2], b.max[3] - b.min[3]>>
         IN  (d[1] + d[2]) * d[3] + d[1] * d[2]

\* a contains o (an empty o is contained in everything)
Contains(a, o) ==
    IsEmptyBox(o) \/ \A x \in 1..3 : a.min[x] <= o.min[x] /\ o.max[x] <= a.max[x]

\* result of extending an empty box by every box of the set S, in any order
UnionBoxes(S) ==
    LET lo(a) == SetMin({b.min[a] : b \in S} \cup {ScalarMax})
        hi(a) == SetMax({b.max[a] : b \in S} \cup {0 - ScalarMax})
    IN  [min |-> <<lo(1), lo(2), lo(3)>>, max |-> <<hi(1), hi(2), hi(3)>>]

\* --------------------------------------------------------------- work items
WorkItem(node_index, begin, end, depth) ==
    [node_index |-> node_index, begin |-> begin, end |-> end, depth |-> depth]

work_size(item) == item.end - item.begin

\* ------------------------------------------------------------- bin mapping
\* center_bbox of the primitives at positions [begin, end)
CenterBox(pidx, begin, end) ==
    UnionBoxes({ExtendPoint(EmptyBox, centers[pidx[i]]) : i \in begin..(end - 1)})

\* what min(size_t(NaN), bin_count - 1) can come out as: the conversion of
\* NaN to size_t is undefined, and yields 0 or a value that clamps to the
\* last bin
NanBins == {0, BinCount - 1}

\* a bin_index whose value at the top of the centroid box also comes out of
\* a NaN conversion
bin_indexTopNaN(center, axis, cbox, nanBin) ==
    LET lo == cbox.min[axis + 1]
        diag == cbox.max[axis + 1] - lo
    IN  IF diag = 0 \/ center[axis + 1] = cbox.max[axis + 1] THEN nanBin
        ELSE Min2(((center[axis + 1] - lo) * BinCount) \div diag, BinCount - 1)

\* bin_index(center, axis) for the node whose centroid box is cbox:
\*   min(size_t(center * inverse + base), bin_count - 1)
\* with inverse = bin_count / diagonal and base = -min * inverse.  On an axis
\* of zero extent inverse is +inf and the sum is NaN, whose conversion
\* yields nanBin in the build() call at hand.
bin_index(center, axis, cbox, nanBin) ==
    LET lo == cbox.min[axis + 1]
        diag == cbox.max[axis + 1] - lo
    IN  IF diag = 0 THEN nanBin
        ELSE Min2(((center[axis + 1] - lo) * BinCount) \div diag, BinCount - 1)

\* ---------------------------------------------------------------- find_split
\* bins_per_axis[axis] after the "Setup bins" and "Fill bins" loops
\* (a sequence: bins[k] of the code is element k + 1)
FillBins(axis, begin, end, cbox, pidx, nanBin) ==
    LET bin(k) ==
            LET here == {i \in begin..(end - 1) :
                            bin_index(centers[pidx[i]], axis, cbox, nanBin) = k}
            IN  [bbox |-> UnionBoxes({bboxes[pidx[i]] : i \in here}),
                 primitive_count |-> Cardinality(here)]
        RECURSIVE Upto(_)
        Upto(k) == IF k = 0 THEN <<>> ELSE Append(Upto(k - 1), bin(k - 1))
    IN  Upto(BinCount)

RECURSIVE SumCounts(_, _, _)
\* primitive_count summed over bins lo..hi
SumCounts(bins, lo, hi) ==
    IF lo > hi THEN 0 ELSE bins[hi + 1].primitive_count + SumCounts(bins, lo, hi - 1)

\* union of the boxes of bins lo..hi
BinsBox(bins, lo, hi) == UnionBoxes({bins[k + 1].bbox : k \in lo..hi})

\* current_bbox.half_area() * current_count once a sweep has gone over bins lo..hi
SweepCost(bins, lo, hi) ==
    Bind(BinsBox(bins, lo, hi), LAMBDA current_bbox :
    Bind(HalfArea(current_bbox), LAMBDA area :
    Bind(SumCounts(bins, lo, hi), LAMBDA current_count :
        ScalarMul(area, current_count))))

\* bins[i].right_cost as left by the right sweep, i in 1..BinCount-1
right_cost(bins, i) == SweepCost(bins, i, BinCount - 1)

\* candidate cost computed by the left sweep at iteration i (boundary i + 1)
SplitCost(bins, i) ==
    Bind(SweepCost(bins, 0, i), LAMBDA left :
    Bind(right_cost(bins, i + 1), LAMBDA right :
        ScalarAdd(left, right)))

\* an update that also replaces the best split on equal cost
BetterSplitOrEqual(cost, best) ==
    ScalarLess(cost, best.first) \/ (cost # NaN /\ cost = best.first)

\* the update  if (cost < best_split.first) best_split = (cost, i + 1)
BetterSplit(cost, best) == ScalarLess(cost, best.first)

\* one iteration of the left sweep: best_split after looking at boundary i + 1
SweepStep(bins, i, best) ==
    Bind(SplitCost(bins, i),
         LAMBDA cost : IF BetterSplit(cost, best)
                       THEN [best EXCEPT !.first = cost, !.second = i + 1]
                       ELSE best)

RECURSIVE LeftSweep(_, _, _)
\* the left sweep from iteration i on, with best_split = best so far
LeftSweep(bins, i, best) ==
    IF i >= BinCount - 1 THEN best
    ELSE Bind(SweepStep(bins, i, best), LAMBDA b : LeftSweep(bins, i + 1, b))

\* find_split: the best (cost, boundary) pair, and the bins it leaves behind
find_split(axis, begin, end, cbox, pidx, nanBin) ==
    Bind(FillBins(axis, begin, end, cbox, pidx, nanBin),
         LAMBDA bins : LeftSweep(bins, 0, [first |-> ScalarMax, second |-> BinCount,
                                           bins |-> bins]))

\* ------------------------------------------------------------ std::partition
\* a swap that loses the second store
SwapLossy(arr, i, j) == [arr EXCEPT ![i] = arr[j]]

\* std::iter_swap
Swap(arr, i, j) == [arr EXCEPT ![i] = arr[j], ![j] = arr[i]]

RECURSIVE SkipFirst(_, _, _, _)
RECURSIVE SkipLast(_, _, _, _)
\* std::partition on [first, last) for bidirectional iterators; T is the set
\* of values satisfying the predicate.  Result: the array and the partition
\* point.
SkipFirst(arr, first, last, T) ==
    IF first = last THEN [arr |-> arr, point |-> first]
    ELSE IF arr[first] \in T THEN SkipFirst(arr, first + 1, last, T)
    ELSE SkipLast(arr, first, last - 1, T)

SkipLast(arr, first, last, T) ==
    IF first = last THEN [arr |-> arr, point |-> first]
    ELSE IF arr[last] \notin T THEN SkipLast(arr, first, last - 1, T)
    ELSE SkipFirst(Swap(arr, first, last), first + 1, last, T)

\* a partition that runs to the tail of the array instead of stopping at end
PartitionToTail(arr, begin, end, T) == SkipFirst(arr, begin, primitive_count, T)

\* std::partition(primitive_indices + begin, primitive_indices + end, pred)
Partition(arr, begin, end, T) == SkipFirst(arr, begin, end, T)

\* --------------------------------------------------------------------- nodes
\* an array with room for the root and one node per primitive
CapacityPerPrimitive(n) == n + 1

\* length of new Node[2 * primitive_count + 1]
Capacity(n) == 2 * n + 1

\* the node array and the memory behind it: slots Capacity(n) and up lie
\* outside the allocation
Slots(n) == 0..(Capacity(n) + MaxOverrun - 1)

\* an element of new Node[...] before anything is stored in it
BlankNode == [bbox |-> EmptyBox, first_child_or_primitive |-> 0,
              primitive_count |-> 0, is_leaf |-> FALSE]

\* a make_leaf that stores one primitive too few
make_leafShort(node, begin, end) ==
    [node EXCEPT !.first_child_or_primitive = begin,
                 !.primitive_count = end - begin - 1,
                 !.is_leaf = TRUE]

\* a make_leaf that leaves the leaf flag as it was
make_leafNoFlag(node, begin, end) ==
    [node EXCEPT !.first_child_or_primitive = begin,
                 !.primitive_count = end - begin]

\* the make_leaf lambda
make_leaf(node, begin, end) ==
    [node EXCEPT !.first_child_or_primitive = begin,
                 !.primitive_count = end - begin,
                 !.is_leaf = TRUE]

\* a forced-leaf test that lets depth max_depth through
ForcedLeafLate(item) == work_size(item) <= 1 \/ item.depth > max_depth

\* the forced-leaf test at the top of build()
ForcedLeaf(item) == work_size(item) <= 1 \/ item.depth >= max_depth

\* an axis selection with both comparisons turned round
BestAxisWorst(best_splits) ==
    LET a1 == IF ScalarLess(best_splits[1].first, best_splits[2].first) THEN 1 ELSE 0
    IN  IF ScalarLess(best_splits[a1 + 1].first, best_splits[3].first) THEN 2 ELSE a1

\* an axis selection that moves on to the next axis on equal cost
BestAxisOrEqual(best_splits) ==
    LET a1 == IF ScalarGreaterEq(best_splits[1].first, best_splits[2].first) THEN 1 ELSE 0
    IN  IF ScalarGreaterEq(best_splits[a1 + 1].first, best_splits[3].first) THEN 2 ELSE a1

\* axis selection over the three best_splits (a sequence: best_splits[axis]
\* of the code is element axis + 1)
BestAxis(best_splits) ==
    LET a1 == IF ScalarGreater(best_splits[1].first, best_splits[2].first) THEN 1 ELSE 0
    IN  IF ScalarGreater(best_splits[a1 + 1].first, best_splits[3].first) THEN 2 ELSE a1

\* a leaf cost that forgets the traversal cost
LeafCostNoTraversal(node, item) == ScalarMul(HalfArea(node.bbox), work_size(item))

\* a leaf cost that adds the traversal cost instead of subtracting it
LeafCostPlusTraversal(node, item) ==
    ScalarMul(HalfArea(node.bbox), work_size(item) + traversal_cost)

\* right-hand side of the cost test: half_area(node) * (work_size - traversal_cost)
LeafCost(node, item) ==
    ScalarMul(HalfArea(node.bbox), work_size(item) - traversal_cost)

\* the test "cost of splitting does not exceed the cost of not splitting"
RejectSplit(split, node, item) ==
    split.second = BinCount \/ ScalarGreaterEq(split.first, LeafCost(node, item))

\* the test "the split does not leave one side empty"
BothSidesNonEmpty(begin_right, item) ==
    begin_right > item.begin /\ begin_right < item.end

\* a capture that advances the counter by one slot only
AtomicCaptureByOne(count) == [left_index |-> count, node_count |-> count + 1]

\* the atomic capture { left_index = node_count; node_count += 2; }
AtomicCapture(count) == [left_index |-> count, node_count |-> count + 2]

\* -------------------------------------------------------------------- inputs
Box(lo, hi) == [min |-> lo, max |-> hi]
Prim(lo, hi, c) == [bbox |-> Box(lo, hi), center |-> c]

\* four primitives: a cube, a cube far from it along y, a cube overlapping
\* the first along x, and a cube halfway along y, shifted in z
FourPrims ==
    << Prim(Vec(0, 0, 0), Vec(2, 2, 2), Vec(1, 1, 1)),
       Prim(Vec(0, 16, 0), Vec(2, 18, 2), Vec(1, 17, 1)),
       Prim(Vec(1, 0, 0), Vec(3, 2, 2), Vec(2, 1, 1)),
       Prim(Vec(0, 8, 1), Vec(2, 10, 3), Vec(1, 9, 2)) >>

\* the primitives the enumerated scenes are made of (the first three)
Palette == {FourPrims[k] : k \in 1..3}

\* two far cubes, the halfway cube and the first cube: along y the cheapest
\* boundary is the last one
SkewPrims == << FourPrims[2], FourPrims[2], FourPrims[4], FourPrims[1] >>

\* the inputs explored: every sequence of up to MaxN palette primitives, the
\* four primitives together (two clusters of two, no axis degenerate), and
\* the skewed scene
Scenes ==
    UNION {[0..(n - 1) -> Palette] : n \in 0..MaxN}
        \cup {[i \in 0..3 |-> FourPrims[i + 1]]}
        \cup {[i \in 0..3 |-> SkewPrims[i + 1]]}

\* a build() call that has just been entered
Entered(item) == [pc |-> "build", item |-> item, best_axis |-> 0, second |-> 0,
                  begin_right |-> 0, bins |-> <<>>, left_index |-> 0]

NoBuild == [item |-> WorkItem(0, 0, 0, 0), outcome |-> "none", first |-> 0,
            second |-> 0, before |-> <<>>]

\* the axis selection has not been run on its own
NoSelection == [done |-> FALSE]

\* no run has finished yet
NoRun == [done |-> FALSE]

EntryCall == [kind |-> "entry", item |-> WorkItem(0, 0, 0, 0)]
BuildCall(item) == [kind |-> "build", item |-> item]

\* state after BinnedSahBuilder(bvh) was constructed, for every input the
\* build is then called with
Init ==
    /\ \E scene \in Scenes :
          /\ primitive_count = Cardinality(DOMAIN scene)
          /\ bboxes = [i \in DOMAIN scene |-> scene[i].bbox]
          /\ centers = [i \in DOMAIN scene |-> scene[i].center]
    /\ max_depth \in 0..MaxDepthCfg
    /\ traversal_cost \in 0..MaxTraversalCost
    /\ emptyAreaInf \in BOOLEAN
    /\ phase = "constructed"
    /\ primitive_indices = <<>>
    /\ nodes = <<>>
    /\ node_count = 0
    /\ pending = {}
    /\ running = {}
    /\ nodeWrites = <<>>
    /\ allocs = {}
    /\ created = {}
    /\ returns = {}
    /\ lastBuild = NoBuild
    /\ order = <<>>
    /\ firstRun = NoRun
    /\ selection = NoSelection

\* ------------------------------------------------------------------- actions
\* BinnedSahBuilder::build up to the call of run(): buffers, identity
\* permutation, root box, node_count = 1, and the root work item
Build ==
    /\ phase = "constructed"
    /\ phase' = "building"
    /\ primitive_indices' = [i \in 0..(primitive_count - 1) |-> i]
    /\ nodes' = [s \in Slots(primitive_count) |->
                    IF s = 0
                    THEN [BlankNode EXCEPT
                            !.bbox = UnionBoxes({bboxes[i] : i \in 0..(primitive_count - 1)})]
                    ELSE BlankNode]
    /\ node_count' = 1
    /\ nodeWrites' = [s \in Slots(primitive_count) |->
                         IF s = 0 THEN <<[by |-> EntryCall, field |-> "bbox"]>>
                         ELSE <<>>]
    /\ pending' = {WorkItem(0, 0, primitive_count, 0)}
    /\ created' = {WorkItem(0, 0, primitive_count, 0)}
    /\ UNCHANGED <<inputs, running, allocs, returns, lastBuild, aside>>

\* run(): a free worker takes a pending work item and calls build() on it
RunPop ==
    /\ phase = "building"
    /\ Cardinality(running) < MaxWorkers
    /\ \E item \in pending :
          /\ pending' = pending \ {item}
          /\ running' = running \cup {Entered(item)}
    /\ UNCHANGED <<inputs, phase, primitive_indices, nodes, node_count,
                   nodeWrites, allocs, created, returns, lastBuild, aside>>

\* the three find_split calls of build() for the node whose centroid box is cbox
BestSplits(item, cbox, pidx, nanBin) ==
    << find_split(0, item.begin, item.end, cbox, pidx, nanBin),
       find_split(1, item.begin, item.end, cbox, pidx, nanBin),
       find_split(2, item.begin, item.end, cbox, pidx, nanBin) >>

\* build(): the centroid box, the three find_split calls and the axis
\* selection for the primitives at positions [begin, end) of pidx
Evaluate(item, pidx, nanBin) ==
    Bind(CenterBox(pidx, item.begin, item.end), LAMBDA cbox :
    Bind(BestSplits(item, cbox, pidx, nanBin), LAMBDA best_splits :
    Bind(BestAxis(best_splits), LAMBDA best_axis :
        [first |-> best_splits[best_axis + 1].first,
         second |-> best_splits[best_axis + 1].second,
         bins |-> best_splits[best_axis + 1].bins,
         best_axis |-> best_axis, cbox |-> cbox])))

\* a partition predicate that bins along axis 0 whatever the winning axis
GoLeftAxis0(e, nanBin) ==
    {i \in 0..(primitive_count - 1) :
        bin_index(centers[i], 0, e.cbox, nanBin) < e.second}

\* the primitives the partition predicate accepts:
\*   bin_index(centers[i], best_axis) < best_splits[best_axis].second
GoLeft(e, nanBin) ==
    {i \in 0..(primitive_count - 1) :
        bin_index(centers[i], e.best_axis, e.cbox, nanBin) < e.second}

\* build() past the forced-leaf test, with e the result of the evaluation
DecideSplit(item, node, pidx, e, nanBin) ==
    IF RejectSplit(e, node, item)
    THEN [outcome |-> "rejected", first |-> e.first, second |-> e.second,
          best_axis |-> e.best_axis, bins |-> e.bins,
          arr |-> pidx, begin_right |-> item.begin]
    ELSE Bind(GoLeft(e, nanBin), LAMBDA T :
         Bind(Partition(pidx, item.begin, item.end, T), LAMBDA parted :
            [outcome |-> IF BothSidesNonEmpty(parted.point, item)
                         THEN "split" ELSE "empty_side",
             first |-> e.first, second |-> e.second,
             best_axis |-> e.best_axis, bins |-> e.bins,
             arr |-> parted.arr, begin_right |-> parted.point]))

\* what build(item) computes from its entry to the test that follows
\* std::partition: which way it goes, the values it compared, and the
\* primitive-index array it leaves
Decide(item, node, pidx, nanBin) ==
    IF ForcedLeaf(item)
    THEN [outcome |-> "forced_leaf", first |-> 0, second |-> 0,
          best_axis |-> 0, bins |-> <<>>, arr |-> pidx, begin_right |-> item.begin]
    ELSE Bind(Evaluate(item, pidx, nanBin),
              LAMBDA e : DecideSplit(item, node, pidx, e, nanBin))

\* build() from its entry to the test that follows std::partition
BuildDecide(t) ==
    /\ t.pc = "build"
    /\ LET item == t.item
           node == nodes[item.node_index]
       IN  \E d \in {Decide(item, node, primitive_indices, nanBin) : nanBin \in NanBins} :
              /\ primitive_indices' = d.arr
              /\ lastBuild' = [item |-> item, outcome |-> d.outcome, first |-> d.first,
                               second |-> d.second, before |-> primitive_indices]
              /\ IF d.outcome = "split"
                 THEN /\ running' = (running \ {t}) \cup
                              {[pc |-> "alloc", item |-> item, best_axis |-> d.best_axis,
                                second |-> d.second, begin_right |-> d.begin_right,
                                bins |-> d.bins, left_index |-> 0]}
                      /\ UNCHANGED <<nodes, nodeWrites, returns>>
                 ELSE /\ nodes' = [nodes EXCEPT ![item.node_index] =
                                      make_leaf(node, item.begin, item.end)]
                      /\ nodeWrites' = [nodeWrites EXCEPT ![item.node_index] =
                              Append(@, [by |-> BuildCall(item), field |-> "link"])]
                      /\ running' = running \ {t}
                      /\ returns' = returns \cup {[by |-> item, items |-> <<>>]}
    /\ UNCHANGED <<inputs, phase, node_count, pending, allocs, created, aside>>

\* build(): the omp atomic capture that reserves two node slots
BuildAllocate(t) ==
    /\ t.pc = "alloc"
    /\ LET got == AtomicCapture(node_count)
       IN  /\ got.left_index + 1 \in DOMAIN nodes
           /\ node_count' = got.node_count
           /\ running' = (running \ {t}) \cup
                  {[t EXCEPT !.pc = "link", !.left_index = got.left_index]}
           /\ allocs' = allocs \cup {[by |-> t.item, left_index |-> got.left_index]}
    /\ UNCHANGED <<inputs, phase, primitive_indices, nodes, pending, nodeWrites,
                   created, returns, lastBuild, aside>>

\* work items that make no progress: the node is handed back as it came
ChildItemsNoProgress(item, left_index, begin_right) ==
    << WorkItem(item.node_index, item.begin, item.end, item.depth),
       WorkItem(item.node_index, item.begin, item.end, item.depth) >>

\* work items that both name the first reserved slot
ChildItemsSameSlot(item, left_index, begin_right) ==
    << WorkItem(left_index + 0, item.begin, begin_right, item.depth + 1),
       WorkItem(left_index + 0, begin_right, item.end, item.depth + 1) >>

\* work items whose ranges overlap
ChildItemsOverlap(item, left_index, begin_right) ==
    << WorkItem(left_index + 0, item.begin, begin_right, item.depth + 1),
       WorkItem(left_index + 1, item.begin, item.end, item.depth + 1) >>

\* work items that leave position begin_right to neither child
ChildItemsGap(item, left_index, begin_right) ==
    << WorkItem(left_index + 0, item.begin, begin_right, item.depth + 1),
       WorkItem(left_index + 1, begin_right + 1, item.end, item.depth + 1) >>

\* work items that stay at the depth of their parent
ChildItemsSameDepth(item, left_index, begin_right) ==
    << WorkItem(left_index + 0, item.begin, begin_right, item.depth),
       WorkItem(left_index + 1, begin_right, item.end, item.depth) >>

\* the two work items build() returns after a split
ChildItems(item, left_index, begin_right) ==
    << WorkItem(left_index + 0, item.begin, begin_right, item.depth + 1),
       WorkItem(left_index + 1, begin_right, item.end, item.depth + 1) >>

\* the two unions stored the wrong way round
ChildBoxesSwapped(bins, second) ==
    << BinsBox(bins, second, BinCount - 1), BinsBox(bins, 0, second - 1) >>

\* left_bbox and right_bbox: the unions of the bins below and from the boundary
ChildBoxes(bins, second) ==
    << BinsBox(bins, 0, second - 1), BinsBox(bins, second, BinCount - 1) >>

\* build() after the capture: the node becomes internal, the children get
\* their boxes, and run() receives the two new work items
BuildLink(t) ==
    /\ t.pc = "link"
    /\ LET item == t.item
           left_index == t.left_index
           boxes == ChildBoxes(t.bins, t.second)
           items == ChildItems(item, left_index, t.begin_right)
           by == BuildCall(item)
       IN  /\ nodes' = [nodes EXCEPT
                          ![item.node_index].first_child_or_primitive = left_index,
                          ![item.node_index].primitive_count = 0,
                          ![item.node_index].is_leaf = FALSE,
                          ![left_index + 0].bbox = boxes[1],
                          ![left_index + 1].bbox = boxes[2]]
           /\ nodeWrites' = [nodeWrites EXCEPT
                          ![item.node_index] = Append(@, [by |-> by, field |-> "link"]),
                          ![left_index + 0] = Append(@, [by |-> by, field |-> "bbox"]),
                          ![left_index + 1] = Append(@, [by |-> by, field |-> "bbox"])]
           /\ pending' = pending \cup {items[1], items[2]}
           /\ created' = created \cup {items[1], items[2]}
           /\ returns' = returns \cup {[by |-> item, items |-> items]}
           /\ running' = running \ {t}
    /\ UNCHANGED <<inputs, phase, primitive_indices, node_count, allocs, lastBuild,
                   aside>>

Next ==
    \/ Build
    \/ RunPop
    \/ \E t \in running : BuildDecide(t)
    \/ \E t \in running : BuildAllocate(t)
    \/ \E t \in running : BuildLink(t)

Spec == Init /\ [][Next]_vars

\* the scheduler lets every started call finish and every pending item be taken
FairSpec == Spec /\ WF_vars(Next)

\* run() has returned: nothing pending, nobody inside build()
Finished ==
    phase = "building" /\ pending = {} /\ running = {}

\* ------------------------------------------------- two single-threaded runs
\* run() on one thread: the next work item is taken when the previous call
\* has returned.  Which pending item comes next is the scheduler's choice; it
\* makes the same choices in the second run as in the first.
SeqPop ==
    /\ phase = "building"
    /\ running = {}
    /\ \E item \in pending :
          /\ firstRun.done =>
                /\ Len(order) < Len(firstRun.order)
                /\ item = firstRun.order[Len(order) + 1]
          /\ pending' = pending \ {item}
          /\ running' = {Entered(item)}
          /\ order' = Append(order, item)
    /\ UNCHANGED <<inputs, phase, primitive_indices, nodes, node_count,
                   nodeWrites, allocs, created, returns, lastBuild, firstRun,
                   selection>>

\* the first run has returned: its result is kept for comparison and a new
\* builder is constructed for the same inputs and configuration
Rebuild ==
    /\ Finished
    /\ ~firstRun.done
    /\ firstRun' = [done |-> TRUE, order |-> order, nodes |-> nodes,
                    node_count |-> node_count,
                    primitive_indices |-> primitive_indices]
    /\ order' = <<>>
    /\ phase' = "constructed"
    /\ primitive_indices' = <<>>
    /\ nodes' = <<>>
    /\ node_count' = 0
    /\ nodeWrites' = <<>>
    /\ allocs' = {}
    /\ created' = {}
    /\ returns' = {}
    /\ lastBuild' = NoBuild
    /\ UNCHANGED <<inputs, pending, running, selection>>

TwiceNext ==
    \/ Build
    \/ SeqPop
    \/ \E t \in running : BuildDecide(t)
    \/ \E t \in running : BuildAllocate(t)
    \/ \E t \in running : BuildLink(t)
    \/ Rebuild

\* the build run twice in a row on a single thread
TwiceSpec == Init /\ [][TwiceNext]_vars

\* ------------------------------------------------- the axis selection alone
\* the costs find_split can return: ordinary costs and the initial maximum
SplitCosts == 0..MaxCost \cup {ScalarMax}

\* the builder the axis selection is tried in: nothing to build
AxisInit ==
    /\ Init
    /\ primitive_count = 0
    /\ max_depth = 0
    /\ traversal_cost = 0
    /\ ~emptyAreaInf

\* lines 128-132 of build() run on three costs of any values
SelectAxis ==
    /\ \E c0, c1, c2 \in SplitCosts :
          LET best_splits == << [first |-> c0, second |-> IF c0 = ScalarMax THEN BinCount ELSE 1],
                                [first |-> c1, second |-> IF c1 = ScalarMax THEN BinCount ELSE 1],
                                [first |-> c2, second |-> IF c2 = ScalarMax THEN BinCount ELSE 1] >>
          IN  selection' = [done |-> TRUE, costs |-> <<c0, c1, c2>>,
                            best_axis |-> BestAxis(best_splits)]
    /\ UNCHANGED <<inputs, phase, primitive_indices, nodes, node_count, pending,
                   running, nodeWrites, allocs, created, returns, lastBuild,
                   order, firstRun>>

AxisNext == SelectAxis

\* the axis selection applied to every triple of costs
AxisSpec == AxisInit /\ [][AxisNext]_vars

\* ------------------------------------------------------------ the built tree
Children(s) ==
    IF nodes[s].is_leaf THEN {}
    ELSE {nodes[s].first_child_or_primitive, nodes[s].first_child_or_primitive + 1}
            \cap DOMAIN nodes

\* the node slots reachable from the root
TreeNodes ==
    LET RECURSIVE Grow(_)
        Grow(S) == LET S2 == S \cup UNION {Children(s) : s \in S}
                   IN  IF S2 = S THEN S ELSE Grow(S2)
    IN  Grow({0})

Leaves == {s \in TreeNodes : nodes[s].is_leaf}

\* the positions of the primitive-index array a leaf holds
LeafRange(s) ==
    nodes[s].first_child_or_primitive ..
        (nodes[s].first_child_or_primitive + nodes[s].primitive_count - 1)

Positions == 0..(primitive_count - 1)

Identity == [i \in Positions |-> i]

\* ------------------------------------------------------------------- claims
\* C1: from the end of the identity initialisation on, the primitive-index
\* array is a permutation of [0, N) in every state of the build.
C1_Permutation ==
    phase = "building" =>
        /\ DOMAIN primitive_indices = Positions
        /\ {primitive_indices[i] : i \in Positions} = Positions

\* C1 witness: a partition has reordered the array
C1_Witness ==
    phase = "building" /\ primitive_indices # Identity

\* C2: when the build has finished, the ranges of the leaves reachable from
\* the root are pairwise disjoint and their union is [0, N), so every
\* primitive index sits in exactly one leaf.
C2_LeafCoverage ==
    Finished =>
        /\ \A a, b \in Leaves : a # b => LeafRange(a) \cap LeafRange(b) = {}
        /\ UNION {LeafRange(s) : s \in Leaves} = Positions
        /\ \A p \in Positions :
              Cardinality({<<s, i>> \in Leaves \X Positions :
                              i \in LeafRange(s) /\ primitive_indices[i] = p}) = 1

\* C2 witness: a finished tree with at least three leaves
C2_Witness ==
    Finished /\ Cardinality(Leaves) >= 3

\* C3: in the finished tree an internal node's box contains the boxes of both
\* children, and a leaf's box contains the box of every primitive in its range.
C3_BoxContainment ==
    Finished =>
        \A s \in TreeNodes :
            IF nodes[s].is_leaf
            THEN \A i \in LeafRange(s) :
                    Contains(nodes[s].bbox, bboxes[primitive_indices[i]])
            ELSE \A c \in Children(s) : Contains(nodes[s].bbox, nodes[c].bbox)

\* C3 witness: a finished tree of depth two whose leaves hold different boxes
C3_Witness ==
    /\ Finished
    /\ \E s \in TreeNodes \ {0} : ~nodes[s].is_leaf
    /\ \E a, b \in Leaves : nodes[a].bbox # nodes[b].bbox

\* the work items that are pending or inside build()
ActiveItems == pending \cup {t.item : t \in running}

ItemRange(item) == item.begin..(item.end - 1)

\* the slots a capture handed out
SlotPair(a) == {a.left_index, a.left_index + 1}

\* half_area(node_box) * (range_size - traversal_cost) for a work item
CostOfLeaf(item) ==
    ScalarMul(HalfArea(nodes[item.node_index].bbox), work_size(item) - traversal_cost)

\* C4: under fair scheduling every build reaches a state with no pending work
\* item and no call in progress, whatever the centroids and max_depth.
C4_Terminates == <>Finished

\* C4 witness: a finished build over two or more primitives whose centroids
\* all coincide
C4_Witness ==
    /\ Finished
    /\ primitive_count >= 2
    /\ \A i, j \in Positions : centers[i] = centers[j]

\* C5: the slot pairs reserved by any two splitting build() calls are
\* disjoint, and no reserved slot is the root.
C5_DisjointSlots ==
    \A a \in allocs :
        /\ a.left_index >= 1
        /\ \A b \in allocs : a # b => SlotPair(a) \cap SlotPair(b) = {}

\* C5 witness: two build() calls are past the capture at the same time
C5_Witness ==
    \E t1, t2 \in running : t1 # t2 /\ t1.pc = "link" /\ t2.pc = "link"

\* C6: every work item ever created has depth <= max_depth; a work item with
\* depth >= max_depth becomes a leaf and reserves no children.
C6_DepthBound ==
    /\ \A item \in created : item.depth <= max_depth
    /\ \A a \in allocs : a.by.depth < max_depth
    /\ (lastBuild.outcome # "none" /\ lastBuild.item.depth >= max_depth)
          => lastBuild.outcome = "forced_leaf"

\* C6 witness: a child with several primitives was made a leaf because it
\* sits at depth max_depth
C6_Witness ==
    /\ lastBuild.outcome = "forced_leaf"
    /\ work_size(lastBuild.item) >= 2
    /\ lastBuild.item.depth = max_depth
    /\ max_depth >= 1

\* C7 as stated: in every finished tree, for every N >= 0, every leaf holds at
\* least one primitive, and no work item of size <= 1 is split.
C7_Original ==
    /\ Finished => \A s \in Leaves : nodes[s].primitive_count >= 1
    /\ \A a \in allocs : work_size(a.by) >= 2

\* C7 amended: in every finished tree over N >= 1 primitives every leaf holds
\* at least one primitive, and no work item of size <= 1 is split (for N = 0
\* the root is a leaf holding no primitive).
C7_LeafSize ==
    /\ (Finished /\ primitive_count >= 1) => \A s \in Leaves : nodes[s].primitive_count >= 1
    /\ (Finished /\ primitive_count = 0) => (Leaves = {0} /\ nodes[0].primitive_count = 0)
    /\ \A a \in allocs : work_size(a.by) >= 2
    /\ (lastBuild.outcome # "none" /\ work_size(lastBuild.item) <= 1)
          => lastBuild.outcome = "forced_leaf"

\* C7 witness: a finished tree with a leaf of one primitive and a leaf of several
C7_Witness ==
    /\ Finished
    /\ \E s \in Leaves : nodes[s].primitive_count = 1
    /\ \E s \in Leaves : nodes[s].primitive_count >= 2

\* the best split of the latest build() call: the one it computed, or, when
\* the forced-leaf test ended the call first, the one find_split reports
SplitSeen(nanBin) ==
    IF lastBuild.outcome = "forced_leaf"
    THEN Evaluate(lastBuild.item, primitive_indices, nanBin)
    ELSE lastBuild

\* C8 as stated: for every build() call, a split node has best cost <
\* half_area * (range_size - traversal_cost), and a node made a leaf has
\* boundary = BinCount or best cost >= that value.
C8_Original ==
    lastBuild.outcome # "none" =>
        \A nanBin \in NanBins :
            IF lastBuild.outcome = "split"
            THEN ScalarLess(SplitSeen(nanBin).first, CostOfLeaf(lastBuild.item))
            ELSE \/ SplitSeen(nanBin).second = BinCount
                 \/ ScalarGreaterEq(SplitSeen(nanBin).first, CostOfLeaf(lastBuild.item))

\* C8 amended: for every build() call that gets past the forced-leaf test
\* (range size >= 2 and depth < max_depth), a split node has best cost <
\* half_area * (range_size - traversal_cost), and a node made a leaf has
\* boundary = BinCount or best cost >= that value.
C8_CostDecision ==
    /\ lastBuild.outcome = "split"
          => ScalarLess(lastBuild.first, CostOfLeaf(lastBuild.item))
    /\ lastBuild.outcome \in {"rejected", "empty_side"}
          => \/ lastBuild.second = BinCount
             \/ ScalarGreaterEq(lastBuild.first, CostOfLeaf(lastBuild.item))

\* C8 witness: a call found a valid boundary and made a leaf because its cost
\* is not below a positive leaf cost
C8_Witness ==
    /\ lastBuild.outcome = "rejected"
    /\ lastBuild.second # BinCount
    /\ CostOfLeaf(lastBuild.item) > 0

\* who wrote to slot s, and the writes to one group of its fields
Writers(s) == {nodeWrites[s][k].by : k \in 1..Len(nodeWrites[s])}
FieldWrites(s, f) == {k \in 1..Len(nodeWrites[s]) : nodeWrites[s][k].field = f}

\* C9 as stated: no node slot receives writes from two different build()
\* calls, or from the top-level entry and a build() call.
C9_Original ==
    phase = "building" => \A s \in DOMAIN nodeWrites : Cardinality(Writers(s)) <= 1

\* C9 amended: every field of a node entry is written at most once: the box
\* by the build() call that reserved the slot through the atomic counter (by
\* the top-level entry for the root), and the leaf/child fields, afterwards,
\* by the one build() call whose work item names the slot.
C9_WriteOnce ==
    phase = "building" =>
        \A s \in DOMAIN nodeWrites :
            /\ Cardinality(FieldWrites(s, "bbox")) <= 1
            /\ Cardinality(FieldWrites(s, "link")) <= 1
            /\ \A k \in FieldWrites(s, "bbox") :
                  /\ k = 1
                  /\ IF s = 0
                     THEN nodeWrites[s][k].by = EntryCall
                     ELSE /\ nodeWrites[s][k].by.kind = "build"
                          /\ \E a \in allocs :
                                a.by = nodeWrites[s][k].by.item /\ s \in SlotPair(a)
            /\ \A k \in FieldWrites(s, "link") :
                  /\ k = 2
                  /\ nodeWrites[s][k].by.kind = "build"
                  /\ nodeWrites[s][k].by.item.node_index = s

\* C9 witness: a child slot has received its box from the parent's call and
\* its leaf/child fields from its own call
C9_Witness ==
    phase = "building" /\ \E s \in DOMAIN nodeWrites : s >= 1 /\ Len(nodeWrites[s]) = 2

\* C10: the work items pending or being executed have pairwise disjoint
\* ranges inside [0, N) and pairwise distinct node slots.
C10_DisjointWork ==
    \A a \in ActiveItems :
        /\ ItemRange(a) \subseteq Positions
        /\ \A b \in ActiveItems :
              a # b => /\ ItemRange(a) \cap ItemRange(b) = {}
                       /\ a.node_index # b.node_index

\* C10 witness: two build() calls over several primitives each are in progress
C10_Witness ==
    \E t1, t2 \in running : t1 # t2 /\ work_size(t1.item) >= 2 /\ work_size(t2.item) >= 2

\* how often value v is stored at the positions S of array arr
Occurrences(arr, S, v) == Cardinality({i \in S : arr[i] = v})

\* C11: a build() call on (node, begin, end, depth) leaves every position of
\* the primitive-index array outside [begin, end) as it found it, and the
\* positions of [begin, end) hold the same multiset of indices as before,
\* whichever way the call ends.
C11_Frame ==
    lastBuild.outcome # "none" =>
        LET item == lastBuild.item
            old == lastBuild.before
        IN  /\ DOMAIN primitive_indices = DOMAIN old
            /\ \A i \in Positions \ ItemRange(item) : primitive_indices[i] = old[i]
            /\ \A v \in Positions :
                  Occurrences(primitive_indices, ItemRange(item), v)
                      = Occurrences(old, ItemRange(item), v)

\* C11 witness: a call on a range that is not the whole array has reordered
\* its range
C11_Witness ==
    /\ lastBuild.outcome = "split"
    /\ lastBuild.item.begin > 0
    /\ primitive_indices # lastBuild.before

\* the work items whose build() call has returned
Returned == {r.by : r \in returns}

\* C12: a build() call returns nothing exactly when it made its node a leaf
\* over [begin, end), and such a call reserves no slots; otherwise it returns
\* exactly the two work items (left_index, begin, begin_right, depth + 1) and
\* (left_index + 1, begin_right, end, depth + 1) with begin < begin_right <
\* end, left_index being the first child stored in the now internal node.
C12_Returns ==
    /\ Returned = created \ ActiveItems
    /\ \A r \in returns :
          LET item == r.by
              node == nodes[item.node_index]
          IN  /\ \A q \in returns : q.by = item => q = r
              /\ (r.items = <<>>) <=> node.is_leaf
              /\ IF r.items = <<>>
                 THEN /\ node.first_child_or_primitive = item.begin
                      /\ node.primitive_count = work_size(item)
                      /\ \A a \in allocs : a.by # item
                 ELSE /\ Len(r.items) = 2
                      /\ \E a \in allocs : a.by = item
                            /\ node.first_child_or_primitive = a.left_index
                      /\ LET left_index == node.first_child_or_primitive
                             begin_right == r.items[1].end
                         IN  /\ item.begin < begin_right /\ begin_right < item.end
                             /\ r.items[1] = WorkItem(left_index, item.begin,
                                                      begin_right, item.depth + 1)
                             /\ r.items[2] = WorkItem(left_index + 1, begin_right,
                                                      item.end, item.depth + 1)
    /\ node_count = (IF phase = "building" THEN 1 ELSE 0) + 2 * Cardinality(allocs)

\* C12 witness: below the root, one call has returned two work items and
\* another has returned nothing
C12_Witness ==
    /\ \E r \in returns : r.by.node_index # 0 /\ r.items # <<>>
    /\ \E r \in returns : r.by.node_index # 0 /\ r.items = <<>>

\* C13: in every state of a build over N >= 0 primitives node_count <=
\* 2 * N + 1, and both slots handed out by every split lie inside the array
\* allocated at the start of the build.
C13_Capacity ==
    phase = "building" =>
        /\ node_count <= Capacity(primitive_count)
        /\ \A a \in allocs : SlotPair(a) \subseteq 0..(Capacity(primitive_count) - 1)
        /\ \A t \in running :
              t.pc = "link" => SlotPair(t) \subseteq 0..(Capacity(primitive_count) - 1)

\* C13 witness: a finished tree with one primitive per leaf over three
\* primitives, which uses 2 * N - 1 slots
C13_Witness ==
    /\ Finished
    /\ primitive_count = 3
    /\ node_count = 2 * primitive_count - 1
    /\ Cardinality(allocs) = 2

\* the slots a finished run has filled
UsedSlots == 0..(node_count - 1)

AllAlike ==
    \A i, j \in Positions : centers[i] = centers[j] /\ bboxes[i] = bboxes[j]

\* C15: for N primitives that all have the same centroid and the same box
\* the build ends without splitting the root: node_count = 1 and the root is
\* a leaf over [0, N) holding all N primitives.
C15_AllAlike ==
    AllAlike =>
        /\ allocs = {}
        /\ phase = "building" => node_count = 1
        /\ Finished =>
              /\ nodes[0].is_leaf
              /\ nodes[0].first_child_or_primitive = 0
              /\ nodes[0].primitive_count = primitive_count

\* C15 witness: a build over several identical primitives has finished, the
\* root having gone through the split evaluation
C15_Witness ==
    /\ AllAlike
    /\ primitive_count >= 2
    /\ Finished
    /\ lastBuild.outcome = "rejected"

\* the ways of dividing the primitives into two non-empty groups
Groups == {G \in SUBSET Positions : G # {} /\ G # Positions}

GroupBox(G) == UnionBoxes({bboxes[i] : i \in G})

\* along axis x box a lies below box b, the gap between them being wider
\* than either box
ApartAlong(a, b, x) ==
    /\ a.max[x] < b.min[x]
    /\ b.min[x] - a.max[x] > Max2(a.max[x] - a.min[x], b.max[x] - b.min[x])

\* G and the remaining primitives are two widely separated clusters
Clusters(G) ==
    LET a == GroupBox(G)
        b == GroupBox(Positions \ G)
    IN  \E x \in 1..3 : ApartAlong(a, b, x) \/ ApartAlong(b, a, x)

\* the primitives within G are all the same
Alike(G) == \A i, j \in G : centers[i] = centers[j] /\ bboxes[i] = bboxes[j]

\* the primitives a leaf holds
LeafPrimitives(s) == {primitive_indices[i] : i \in LeafRange(s)}

\* the finished tree is a root with two leaves, one per cluster
RootAndTwoLeaves(G) ==
    /\ node_count = 3
    /\ ~nodes[0].is_leaf
    /\ nodes[0].first_child_or_primitive = 1
    /\ nodes[1].is_leaf /\ nodes[2].is_leaf
    /\ {LeafPrimitives(1), LeafPrimitives(2)} = {G, Positions \ G}

\* the cost of splitting G from the rest is below the cost of a root leaf
SplitPays(G) ==
    LET H == Positions \ G
        cost == ScalarAdd(ScalarMul(HalfArea(GroupBox(G)), Cardinality(G)),
                          ScalarMul(HalfArea(GroupBox(H)), Cardinality(H)))
    IN  ScalarLess(cost, ScalarMul(HalfArea(GroupBox(Positions)),
                                   primitive_count - traversal_cost))

\* C16 as stated: for an input made of two widely separated clusters the
\* finished tree has exactly three nodes, the root and two leaves holding one
\* cluster each.
C16_Original ==
    Finished => \A G \in Groups : Clusters(G) => RootAndTwoLeaves(G)

\* C16 amended: for two widely separated clusters, each made of identical
\* primitives, with max_depth >= 1 and the cost of the two clusters below the
\* cost of a root leaf, the finished tree has exactly three nodes, the root
\* and two leaves holding one cluster each.
C16_TwoClusters ==
    Finished =>
        \A G \in Groups :
            (/\ Clusters(G)
             /\ Alike(G) /\ Alike(Positions \ G)
             /\ max_depth >= 1
             /\ SplitPays(G)) => RootAndTwoLeaves(G)

\* C16 witness: a finished three-node tree over a cluster of two identical
\* primitives and a single primitive far from them
C16_Witness ==
    /\ Finished
    /\ primitive_count = 3
    /\ \E G \in Groups :
          /\ Cardinality(G) = 2
          /\ Clusters(G) /\ Alike(G) /\ SplitPays(G)
          /\ max_depth >= 1
          /\ RootAndTwoLeaves(G)

\* the latest build() call evaluated the splits and found none that lowers
\* the cost
NoGain ==
    /\ lastBuild.outcome \notin {"none", "forced_leaf"}
    /\ \/ lastBuild.second = BinCount
       \/ ScalarGreaterEq(lastBuild.first, CostOfLeaf(lastBuild.item))

\* the node of work item `item` is a leaf holding the whole range
LeafOver(item) ==
    /\ nodes[item.node_index].is_leaf
    /\ nodes[item.node_index].first_child_or_primitive = item.begin
    /\ nodes[item.node_index].primitive_count = work_size(item)

\* C17: a build() call that finds no split lowering the cost, and in
\* particular every call with traversal_cost >= range size, makes its node a
\* leaf holding all its primitives and reserves no child slots.
C17_NoGainLeaf ==
    lastBuild.outcome # "none" =>
        LET item == lastBuild.item
        IN  (NoGain \/ traversal_cost >= work_size(item)) =>
                /\ LeafOver(item)
                /\ \A a \in allocs : a.by # item
                /\ \A t \in running : t.item # item

\* C17 witness: with max_depth >= 1, a root over two primitives far apart was
\* made a leaf because traversal_cost is as large as its range
C17_Witness ==
    /\ lastBuild.outcome = "rejected"
    /\ lastBuild.item = WorkItem(0, 0, primitive_count, 0)
    /\ primitive_count = 2
    /\ traversal_cost >= 2
    /\ lastBuild.second # BinCount
    /\ centers[0] # centers[1]

\* half_area(union of bins 0..b-1) * count + half_area(union of bins
\* b..BinCount-1) * count, taken over the primitives at positions [begin, end)
\* of pidx themselves
BoundaryCost(axis, begin, end, cbox, pidx, nanBin, b) ==
    LET low == {i \in begin..(end - 1) :
                    bin_index(centers[pidx[i]], axis, cbox, nanBin) < b}
        high == (begin..(end - 1)) \ low
        side(S) == ScalarMul(HalfArea(UnionBoxes({bboxes[pidx[i]] : i \in S})),
                             Cardinality(S))
    IN  ScalarAdd(side(low), side(high))

\* the pair the claim describes: the least cost below the initial maximum
\* and the lowest boundary that has it, or (maximum, BinCount) if there is
\* no such cost
LeastBoundary(axis, begin, end, cbox, pidx, nanBin) ==
    LET RECURSIVE Costs(_)
        \* the sequence of the costs of boundaries 1..b
        Costs(b) ==
            IF b = 0 THEN <<>>
            ELSE Append(Costs(b - 1),
                        BoundaryCost(axis, begin, end, cbox, pidx, nanBin, b))
    IN  Bind(Costs(BinCount - 1), LAMBDA cost :
            LET valid == {b \in 1..(BinCount - 1) : ScalarLess(cost[b], ScalarMax)}
                least == {b \in valid : \A c \in valid : ~ScalarLess(cost[c], cost[b])}
            IN  IF valid = {} THEN [first |-> ScalarMax, second |-> BinCount]
                ELSE [first |-> cost[SetMin(least)], second |-> SetMin(least)])

\* C18: for the range and the array a build() call evaluates, find_split
\* returns on every axis the least boundary cost and the lowest boundary
\* that has it, and returns boundary BinCount only when no boundary has a
\* cost below the initial maximum.
C18_FindSplit ==
    lastBuild.outcome \notin {"none", "forced_leaf"} =>
        LET item == lastBuild.item
            pidx == lastBuild.before
            cbox == CenterBox(pidx, item.begin, item.end)
        IN  \A axis \in Axes : \A nanBin \in NanBins :
                Bind(find_split(axis, item.begin, item.end, cbox, pidx, nanBin),
                     LAMBDA got :
                Bind(LeastBoundary(axis, item.begin, item.end, cbox, pidx, nanBin),
                     LAMBDA least :
                        /\ got.first = least.first
                        /\ got.second = least.second))

\* C18 witness: a call found its cheapest boundary above the first one, and
\* a call found several boundaries of the same least cost
C18_Witness ==
    /\ lastBuild.outcome = "split"
    /\ lastBuild.second \in 2..(BinCount - 1)
    /\ LET item == lastBuild.item
           pidx == lastBuild.before
           cbox == CenterBox(pidx, item.begin, item.end)
       IN  \E axis \in Axes : \E b \in 2..(BinCount - 1) :
              LET got == find_split(axis, item.begin, item.end, cbox, pidx, 0)
              IN  /\ got.second = 1
                  /\ BoundaryCost(axis, item.begin, item.end, cbox, pidx, 0, b) = got.first

\* union of the boxes of the primitives at the positions of a work item
RangeBox(item) == UnionBoxes({bboxes[primitive_indices[i]] : i \in ItemRange(item)})

\* C19: whenever build() splits a node, each child's stored box is the union
\* of the boxes of exactly the primitives in that child's range, and
\* begin_right - begin is the primitive count of the bins below the winning
\* boundary on the winning axis.
C19_ChildBoxes ==
    /\ \A t \in running :
          t.pc \in {"alloc", "link"} =>
              /\ t.begin_right - t.item.begin = SumCounts(t.bins, 0, t.second - 1)
              /\ BinsBox(t.bins, 0, t.second - 1)
                    = RangeBox(WorkItem(0, t.item.begin, t.begin_right, 0))
              /\ BinsBox(t.bins, t.second, BinCount - 1)
                    = RangeBox(WorkItem(0, t.begin_right, t.item.end, 0))
    /\ \A r \in returns :
          r.items # <<>> =>
              \A k \in 1..2 : nodes[r.items[k].node_index].bbox = RangeBox(r.items[k])

\* C19 witness: a split has given both children several primitives and
\* different boxes
C19_Witness ==
    \E r \in returns :
        /\ r.items # <<>>
        /\ work_size(r.items[1]) >= 2
        /\ work_size(r.items[2]) >= 2
        /\ nodes[r.items[1].node_index].bbox # nodes[r.items[2].node_index].bbox

\* C20: the axis build() picks has the least of the three find_split costs,
\* and every axis of lower index has a strictly greater cost, for every
\* combination of the three costs.
C20_AxisSelection ==
    selection.done =>
        LET cost(a) == selection.costs[a + 1]
            best_axis == selection.best_axis
        IN  /\ best_axis \in Axes
            /\ \A a \in Axes : cost(best_axis) <= cost(a)
            /\ \A a \in Axes : a < best_axis => cost(a) > cost(best_axis)

\* C20 witness: axes 1 and 2 share the least cost, axis 0 costs more, and
\* axis 1 was picked
C20_Witness ==
    /\ selection.done
    /\ selection.costs[2] = selection.costs[3]
    /\ selection.costs[1] > selection.costs[2]
    /\ selection.best_axis = 1

====
